---- MODULE Spec2Model ----
(***************************************************************************)
(* dubbo-go: the dubbo protocol invoker (DubboInvoker) over the shared,    *)
(* reference-counted exchange clients, and the configuration backends.     *)
(*                                                                         *)
(* Strings that the code parses or formats (durations, booleans, decimal   *)
(* numbers) are sequences of one-character strings, so that parsing and    *)
(* formatting are computed; names that are only compared (method names,    *)
(* parameter keys, locations) are plain strings.                           *)
(* A time.Duration is counted in microseconds; the duration strings of the *)
(* model use the units us, ms, s and m.                                    *)
(***************************************************************************)
EXTENDS Integers, Sequences, FiniteSets, TLC

\* ------------------------------------------------------------------ bounds
NumThreads == 2
NumInvokers == 3
MaxClients == 2
MaxOnceRuns == 2

Threads == 1..NumThreads
Invokers == 1..NumInvokers
Clients == 1..MaxClients
Nil == 0

\* ------------------------------------------------------- strings and parsing
Digits == <<"0", "1", "2", "3", "4", "5", "6", "7", "8", "9">>
DigitSet == {Digits[k] : k \in 1..10}
DigitVal(c) == (CHOOSE k \in 1..10 : Digits[k] = c) - 1

\* strconv.ParseBool: the accepted spellings of true and of false.
TrueStrings == {<<"1">>, <<"t">>, <<"T">>, <<"t","r","u","e">>,
                <<"T","R","U","E">>, <<"T","r","u","e">>}
FalseStrings == {<<"0">>, <<"f">>, <<"F">>, <<"f","a","l","s","e">>,
                 <<"F","A","L","S","E">>, <<"F","a","l","s","e">>}
ParseBool(s) ==
    IF s \in TrueStrings THEN [ok |-> TRUE, v |-> TRUE]
    ELSE IF s \in FalseStrings THEN [ok |-> TRUE, v |-> FALSE]
    ELSE [ok |-> FALSE, v |-> FALSE]

\* The units of time.ParseDuration the model uses, in microseconds.
UnitNames == {<<"u","s">>, <<"m","s">>, <<"s">>, <<"m">>}
UnitValue(u) ==
    IF u = <<"u","s">> THEN 1
    ELSE IF u = <<"m","s">> THEN 1000
    ELSE IF u = <<"s">> THEN 1000000
    ELSE 60000000

\* The longest prefix of s made of digits (leadingInt), and of non-digits (the unit).
RECURSIVE DigitPrefixLen(_)
DigitPrefixLen(s) ==
    IF s = <<>> \/ Head(s) \notin DigitSet THEN 0 ELSE 1 + DigitPrefixLen(Tail(s))
RECURSIVE UnitPrefixLen(_)
UnitPrefixLen(s) ==
    IF s = <<>> \/ Head(s) \in DigitSet THEN 0 ELSE 1 + UnitPrefixLen(Tail(s))
RECURSIVE DecimalValue(_)
DecimalValue(s) ==
    IF s = <<>> THEN 0 ELSE 10 * DecimalValue(SubSeq(s, 1, Len(s) - 1)) + DigitVal(s[Len(s)])

\* time.ParseDuration on an unsigned string: one or more <digits><unit> groups.
RECURSIVE ParseGroups(_)
ParseGroups(s) ==
    IF s = <<>> THEN [ok |-> TRUE, v |-> 0]
    ELSE LET n == DigitPrefixLen(s)
             r == SubSeq(s, n + 1, Len(s))
             m == UnitPrefixLen(r)
             u == SubSeq(r, 1, m)
             rest == ParseGroups(SubSeq(r, m + 1, Len(r)))
         IN  IF n = 0 \/ m = 0 \/ u \notin UnitNames \/ ~rest.ok
             THEN [ok |-> FALSE, v |-> 0]
             ELSE [ok |-> TRUE, v |-> DecimalValue(SubSeq(s, 1, n)) * UnitValue(u) + rest.v]

\* time.ParseDuration: optional sign, "0" alone, else groups; ok = (err == nil).
ParseDuration(s) ==
    LET neg == s # <<>> /\ Head(s) = "-"
        body == IF s # <<>> /\ Head(s) \in {"-", "+"} THEN Tail(s) ELSE s
        g == ParseGroups(body)
    IN  IF body = <<"0">> THEN [ok |-> TRUE, v |-> 0]
        ELSE IF body = <<>> \/ ~g.ok THEN [ok |-> FALSE, v |-> 0]
        ELSE [ok |-> TRUE, v |-> IF neg THEN 0 - g.v ELSE g.v]

\* Duration.Milliseconds: integer division truncating toward zero.
Milliseconds(d) == IF d >= 0 THEN d \div 1000 ELSE 0 - ((0 - d) \div 1000)

\* strconv.Itoa: the decimal digits, with a leading "-" below zero.
RECURSIVE NatDigits(_)
NatDigits(n) ==
    IF n < 10 THEN <<Digits[n + 1]>> ELSE Append(NatDigits(n \div 10), Digits[(n % 10) + 1])
Itoa(n) == IF n < 0 THEN <<"-">> \o NatDigits(0 - n) ELSE NatDigits(n)

\* --------------------------------------------------------------- the URL
INTERFACE_KEY == "interface"
GROUP_KEY == "group"
TOKEN_KEY == "token"
TIMEOUT_KEY == "timeout"
VERSION_KEY == "version"
PATH_KEY == "path"
ASYNC_KEY == "async"
GENERIC_KEY == "generic"
SERIALIZATION_KEY == "serialization"
METHOD_KEYS == "methods"
TRACE_KEY == "trace"

\* var attachmentKey: the URL parameters copied into every invocation.
attachmentKey == <<INTERFACE_KEY, GROUP_KEY, TOKEN_KEY, TIMEOUT_KEY, VERSION_KEY>>

Methods == {"foo", "bar"}
\* strings.Join({METHOD_KEYS, methodName, TIMEOUT_KEY}, ".")
MethodTimeoutKey(m) == METHOD_KEYS \o "." \o m \o "." \o TIMEOUT_KEY

ParamKeys ==
    {INTERFACE_KEY, GROUP_KEY, TOKEN_KEY, TIMEOUT_KEY, VERSION_KEY, GENERIC_KEY,
     SERIALIZATION_KEY} \cup {MethodTimeoutKey(m) : m \in Methods}

\* URL.GetParam(k, d): the parameter, or d when it is absent or empty.
GetParam(url, k, d) ==
    IF k \in DOMAIN url.params /\ url.params[k] # <<>> THEN url.params[k] ELSE d
\* URL.GetParamBool(k, d): the parsed parameter, or d when it does not parse.
GetParamBool(url, k, d) ==
    LET b == ParseBool(GetParam(url, k, <<>>)) IN IF b.ok THEN b.v ELSE d
\* URL.SetParam(k, v)
SetParam(url, k, v) == [url EXCEPT !.params[k] = v]

\* The consumer configuration's request timeout ("3s"), and the fallback of
\* URL.GetParamDuration when the value does not parse (3 seconds).
RequestTimeout == <<"3", "s">>
DefaultDuration == 3000000
GetParamDuration(url, k, d) ==
    LET t == ParseDuration(GetParam(url, k, d)) IN IF t.ok THEN t.v ELSE DefaultDuration

HESSIAN2_SERIALIZATION == <<"h", "2">>
S_5s == <<"5", "s">>
S_1m == <<"1", "m">>
S_200ms == <<"2", "0", "0", "m", "s">>
S_1500us == <<"1", "5", "0", "0", "u", "s">>
S_neg1500us == <<"-", "1", "5", "0", "0", "u", "s">>
S_bad == <<"5", "x">>
S_true == <<"t", "r", "u", "e">>
S_false == <<"f", "a", "l", "s", "e">>
S_svc == <<"S", "v", "c">>

MkURL(loc, timeout, fooTimeout, barTimeout, generic, serialization) ==
    [Location |-> loc,
     params |-> [k \in ParamKeys |->
        IF k = INTERFACE_KEY THEN S_svc
        ELSE IF k = TIMEOUT_KEY THEN timeout
        ELSE IF k = MethodTimeoutKey("foo") THEN fooTimeout
        ELSE IF k = MethodTimeoutKey("bar") THEN barTimeout
        ELSE IF k = GENERIC_KEY THEN generic
        ELSE IF k = SERIALIZATION_KEY THEN serialization
        ELSE <<>>]]

Locations == {"A", "B"}
\* The URLs of the lifecycle specification: one per endpoint.
LifecycleURLs == {MkURL(l, S_5s, <<>>, <<>>, <<>>, HESSIAN2_SERIALIZATION) : l \in Locations}
\* The URLs of the invocation specification: the timeout parameters varied.
InvokeURLs ==
    {MkURL("A", S_5s, S_200ms, <<>>, <<>>, <<>>),
     MkURL("A", <<>>, S_bad, S_1500us, <<>>, <<>>),
     MkURL("A", S_bad, S_neg1500us, S_1m, <<>>, HESSIAN2_SERIALIZATION),
     MkURL("A", S_5s, S_200ms, <<>>, S_true, <<>>)}

\* ------------------------------------------ the configuration backends: data
\* Keys, groups and paths are strings, written as their characters; a value
\* is the sequence of its bytes.
S_dubbo == <<"d", "u", "b", "b", "o">>
S_slash_config == <<"/", "c", "o", "n", "f", "i", "g">>
S_dubbo_properties ==
    <<"d", "u", "b", "b", "o", ".", "p", "r", "o", "p", "e", "r", "t", "i", "e", "s">>
S_configurators ==
    <<"o", "r", "g", ".", "a", "p", "a", "c", "h", "e", ".", "d", "u", "b", "b", "o", ".", "D",
      "e", "m", "o", "S", "e", "r", "v", "i", "c", "e", ".", "c", "o", "n", "f", "i", "g", "u",
      "r", "a", "t", "o", "r", "s">>
S_a == <<"a">>
S_ab == <<"a", "b">>
S_bc == <<"b", "c">>
S_c == <<"c">>
S_ns == <<"n", "s">>

pathSeparator == <<"/">>
DEFAULT_GROUP == S_dubbo

\* strings.LastIndex(s, ch) for a one-character ch: the index from 0 of its
\* last occurrence, below 0 when there is none.
LastIndex(s, ch) ==
    LET I == {i \in 1..Len(s) : s[i] = ch}
    IN  IF I = {} THEN 0 - 1 ELSE (CHOOSE i \in I : \A j \in I : j <= i) - 1
\* s[lo:hi]
Slice(s, lo, hi) == SubSeq(s, lo + 1, hi)

\* key[0:i] with i below 0: the slice bounds are out of range.
ResolvePanics(key, group) == Len(group) = 0 /\ LastIndex(key, ".") < 0
\* A resolution that turns every "." of a key without group into "/".
ResolveKeyEveryDot(key, group) ==
    IF Len(group) # 0
    THEN group \o <<"/">> \o key
    ELSE [j \in 1..Len(key) |-> IF key[j] = "." THEN "/" ELSE key[j]]
\* GetProperties: the path below rootPath that (group, key) is read from.
ResolveKey(key, group) ==
    IF Len(group) # 0
    THEN group \o <<"/">> \o key
    ELSE LET i == LastIndex(key, ".")
         IN  Slice(key, 0, i) \o <<"/">> \o Slice(key, i + 1, Len(key))

buildPath(rootPath, group) ==
    rootPath \o pathSeparator \o (IF Len(group) = 0 THEN DEFAULT_GROUP ELSE group)
getPath(rootPath, key, group) ==
    IF Len(key) = 0
    THEN buildPath(rootPath, group)
    ELSE buildPath(rootPath, group) \o pathSeparator \o key

\* base64.StdEncoding: the byte of the n-th letter of the alphabet, the value
\* of a letter (below 0 for a byte that is none), and the padding byte "=".
Base64Char(n) ==
    IF n < 26 THEN 65 + n
    ELSE IF n < 52 THEN 71 + n
    ELSE IF n < 62 THEN n - 4
    ELSE IF n = 62 THEN 43 ELSE 47
Base64Index(c) ==
    IF c >= 65 /\ c <= 90 THEN c - 65
    ELSE IF c >= 97 /\ c <= 122 THEN c - 71
    ELSE IF c >= 48 /\ c <= 57 THEN c + 4
    ELSE IF c = 43 THEN 62
    ELSE IF c = 47 THEN 63 ELSE 0 - 1
Base64Pad == 61

\* base64.StdEncoding.EncodeToString: three bytes become four letters, the
\* last group padded.
RECURSIVE EncodeToString(_)
EncodeToString(b) ==
    IF Len(b) = 0 THEN <<>>
    ELSE LET b1 == b[1]
             b2 == IF Len(b) >= 2 THEN b[2] ELSE 0
             b3 == IF Len(b) >= 3 THEN b[3] ELSE 0
             c1 == Base64Char(b1 \div 4)
             c2 == Base64Char((b1 % 4) * 16 + (b2 \div 16))
             c3 == IF Len(b) >= 2 THEN Base64Char((b2 % 16) * 4 + (b3 \div 64)) ELSE Base64Pad
             c4 == IF Len(b) >= 3 THEN Base64Char(b3 % 64) ELSE Base64Pad
         IN  <<c1, c2, c3, c4>> \o
             (IF Len(b) > 3 THEN EncodeToString(SubSeq(b, 4, Len(b))) ELSE <<>>)

\* base64.StdEncoding.DecodeString: groups of four letters, padding only at
\* the end; anything else is an error.
RECURSIVE DecodeString(_)
DecodeString(s) ==
    IF Len(s) = 0 THEN [ok |-> TRUE, v |-> <<>>]
    ELSE IF Len(s) < 4 THEN [ok |-> FALSE, v |-> <<>>]
    ELSE LET p3 == s[3] = Base64Pad
             p4 == s[4] = Base64Pad
             i1 == Base64Index(s[1])
             i2 == Base64Index(s[2])
             i3 == IF p3 THEN 0 ELSE Base64Index(s[3])
             i4 == IF p4 THEN 0 ELSE Base64Index(s[4])
             valid == /\ i1 >= 0 /\ i2 >= 0 /\ i3 >= 0 /\ i4 >= 0
                      /\ p3 => p4
                      /\ p4 => Len(s) = 4
             bytes == <<i1 * 4 + (i2 \div 16)>> \o
                      (IF p3 THEN <<>> ELSE <<(i2 % 16) * 16 + (i3 \div 4)>>) \o
                      (IF p4 THEN <<>> ELSE <<(i3 % 4) * 64 + i4>>)
             rest == DecodeString(SubSeq(s, 5, Len(s)))
         IN  IF valid /\ rest.ok
             THEN [ok |-> TRUE, v |-> bytes \o rest.v]
             ELSE [ok |-> FALSE, v |-> <<>>]

\* The zookeeper client: a node's content, the creation of a node, and the
\* write of a value at a path.
GetContent(nodes, path) ==
    IF path \in DOMAIN nodes
    THEN [ok |-> TRUE, v |-> nodes[path]]
    ELSE [ok |-> FALSE, v |-> <<>>]
Create(nodes, path) ==
    [p \in DOMAIN nodes \cup {path} |-> IF p \in DOMAIN nodes THEN nodes[p] ELSE <<>>]
CreateWithValue(nodes, path, value) ==
    [p \in DOMAIN nodes \cup {path} |-> IF p = path THEN value ELSE nodes[p]]

\* The listeners of an entry of a listener map, and the map after a listener
\* is added to or removed from the entry of a key.
EntryOf(m, k) == IF k \in DOMAIN m THEN m[k] ELSE {}
AddToEntry(m, k, l) ==
    [e \in DOMAIN m \cup {k} |-> IF e = k THEN EntryOf(m, k) \cup {l} ELSE m[e]]
RemoveFromEntry(m, k, l) ==
    IF k \in DOMAIN m THEN [m EXCEPT ![k] = @ \ {l}] ELSE m

\* ------------------------------------------------------------- the state
VARIABLES
    exchangeClientMap,  \* the pool: Location -> client, Nil when absent
    activeNum,          \* ExchangeClient.activeNum, per client
    clientState,        \* "unborn" | "open" | "closed", per client
    closeCalls,         \* how many times Close ran, per client
    di,                 \* the DubboInvokers, per slot
    th,                 \* the goroutines: position and locals
    zk,                 \* the zookeeperDynamicConfiguration and its server's nodes
    apollo              \* the apolloConfiguration

vars == <<exchangeClientMap, activeNum, clientState, closeCalls, di, th, zk, apollo>>

NoURL == [Location |-> "", params |-> [k \in ParamKeys |-> <<>>]]

\* A slot before NewDubboInvoker. readers and writerWaiting are clientGuard;
\* bound, onceRuns and decrements record what has happened.
NoInvoker ==
    [built |-> FALSE, url |-> NoURL, client |-> Nil, timeout |-> 0,
     available |-> FALSE, quitOnce |-> "idle", readers |-> {}, writerWaiting |-> FALSE,
     bound |-> Nil, onceRuns |-> 0, decrements |-> 0]

NoCall == [kind |-> "none"]
IdleThread == [pc |-> "idle", inv |-> 0, client |-> Nil, activeNumber |-> 0, call |-> NoCall]

\* The last PublishConfig and the last GetProperties, none at first.
NoPublish == [made |-> FALSE, key |-> <<>>, group |-> <<>>, value |-> <<>>]
NoGet ==
    [outcome |-> "none", key |-> <<>>, group |-> <<>>, path |-> <<>>, value |-> <<>>,
     after |-> NoPublish]

\* No zookeeperDynamicConfiguration yet. done, client and listener are "nil",
\* "open" or "closed"; nodes is the server's content by path; keyListeners is
\* the cacheListener's map. registered, listenerCloses, destroyCalls,
\* publishes, published and got record what has happened.
NoZookeeper ==
    [built |-> FALSE, rootPath |-> <<>>, base64Enabled |-> FALSE, wg |-> 0,
     done |-> "nil", client |-> "nil", listener |-> "nil", nodes |-> <<>>,
     keyListeners |-> <<>>, registered |-> {}, listenerCloses |-> 0, destroyCalls |-> 0,
     publishes |-> 0, published |-> NoPublish, got |-> NoGet]

\* newApolloConfiguration: no listeners, no parser. registered records the
\* listeners added under each (group, key) and not removed under it since.
NewApolloConfiguration ==
    [listeners |-> <<>>, appConf |-> "appConf", parser |-> "nil", registered |-> {}]

Init ==
    /\ exchangeClientMap = [l \in Locations |-> Nil]
    /\ activeNum = [c \in Clients |-> 0]
    /\ clientState = [c \in Clients |-> "unborn"]
    /\ closeCalls = [c \in Clients |-> 0]
    /\ di = [i \in Invokers |-> NoInvoker]
    /\ th = [t \in Threads |-> IdleThread]
    /\ zk = NoZookeeper
    /\ apollo = NewApolloConfiguration

\* A goroutine that is between two calls.
Ready(t) == th[t].pc \in {"idle", "returned", "panicked"}

\* --------------------------------------------------- the exchange client pool
\* getExchangeClient: the pooled client of the location, else a new one.
PoolHas(loc) == exchangeClientMap[loc] # Nil
FreshClient == CHOOSE c \in Clients : clientState[c] = "unborn" /\
                   \A d \in Clients : clientState[d] = "unborn" => c <= d
CanAcquire(loc) == PoolHas(loc) \/ \E c \in Clients : clientState[c] = "unborn"
Acquired(loc) == IF PoolHas(loc) THEN exchangeClientMap[loc] ELSE FreshClient

\* ExchangeClient.IncreaseActiveNumber / DecreaseActiveNumber: the new count.
IncreaseActiveNumber(n) == n + 1
DecreaseActiveNumber(n) == n - 1

\* Acquire(location): lookup and increment in one step; a new client starts at 1.
Acquire(loc) ==
    /\ CanAcquire(loc)
    /\ exchangeClientMap' = [exchangeClientMap EXCEPT ![loc] = Acquired(loc)]
    /\ activeNum' = [activeNum EXCEPT ![Acquired(loc)] =
                        IF PoolHas(loc) THEN IncreaseActiveNumber(@) ELSE 1]
    /\ clientState' = [clientState EXCEPT ![Acquired(loc)] =
                        IF PoolHas(loc) THEN @ ELSE "open"]

\* ------------------------------------------------------------ construction
\* NewDubboInvoker(url, client), the client acquired from the pool or nil.
NewDubboInvoker(url, client) ==
    [NoInvoker EXCEPT !.built = TRUE, !.url = url, !.client = client,
                      !.timeout = GetParamDuration(url, TIMEOUT_KEY, RequestTimeout),
                      !.available = TRUE, !.bound = client]

\* Slots are filled in order.
NextSlot(i) == ~di[i].built /\ \A j \in Invokers : j < i => di[j].built

Refer(t, i, url) ==
    /\ Ready(t)
    /\ NextSlot(i)
    /\ Acquire(url.Location)
    /\ di' = [di EXCEPT ![i] = NewDubboInvoker(url, Acquired(url.Location))]
    /\ th' = [th EXCEPT ![t] = IdleThread]
    /\ UNCHANGED <<closeCalls, zk, apollo>>

ConstructWithoutClient(t, i, url) ==
    /\ Ready(t)
    /\ NextSlot(i)
    /\ di' = [di EXCEPT ![i] = NewDubboInvoker(url, Nil)]
    /\ th' = [th EXCEPT ![t] = IdleThread]
    /\ UNCHANGED <<exchangeClientMap, activeNum, clientState, closeCalls, zk, apollo>>

\* ----------------------------------------------------------------- Destroy
\* BaseInvoker.Destroy: the invoker is no longer available.
BaseDestroy(d) == [d EXCEPT !.available = FALSE]
\* BaseInvoker.IsAvailable
BaseIsAvailable(d) == d.available

\* A Destroy without the one-shot guard: every caller runs the function.
OnceRunsEveryCall(once) == TRUE
\* sync.Once.Do: whether this caller runs the function.
OnceRuns(once) == once = "idle"

\* Destroy is called: the first caller runs the body, the others wait for it.
DestroyCall(t, i) ==
    /\ Ready(t)
    /\ di[i].built
    /\ IF OnceRuns(di[i].quitOnce)
       THEN /\ di[i].onceRuns < MaxOnceRuns
            /\ di' = [di EXCEPT ![i].quitOnce = "running", ![i].onceRuns = @ + 1]
            /\ th' = [th EXCEPT ![t] = [IdleThread EXCEPT !.pc = "D_base", !.inv = i]]
       ELSE /\ di' = di
            /\ th' = [th EXCEPT ![t] = [IdleThread EXCEPT !.pc = "D_wait", !.inv = i]]
    /\ UNCHANGED <<exchangeClientMap, activeNum, clientState, closeCalls, zk, apollo>>

\* A caller that did not run the body returns once the body has finished.
DestroyWaitReturn(t) ==
    /\ th[t].pc = "D_wait"
    /\ di[th[t].inv].quitOnce = "done"
    /\ th' = [th EXCEPT ![t].pc = "idle"]
    /\ UNCHANGED <<exchangeClientMap, activeNum, clientState, closeCalls, di, zk, apollo>>

\* di.BaseInvoker.Destroy()
DestroyBase(t) ==
    /\ th[t].pc = "D_base"
    /\ di' = [di EXCEPT ![th[t].inv] = BaseDestroy(@)]
    /\ th' = [th EXCEPT ![t].pc = "D_get"]
    /\ UNCHANGED <<exchangeClientMap, activeNum, clientState, closeCalls, zk, apollo>>

\* client := di.getClient(); if client != nil
DestroyGetClient(t) ==
    /\ th[t].pc = "D_get"
    /\ ~di[th[t].inv].writerWaiting
    /\ th' = [th EXCEPT ![t].client = di[th[t].inv].client,
                        ![t].pc = IF di[th[t].inv].client = Nil THEN "D_done" ELSE "D_dec"]
    /\ UNCHANGED <<exchangeClientMap, activeNum, clientState, closeCalls, di, zk, apollo>>

\* activeNumber := client.DecreaseActiveNumber()
DestroyDecrease(t) ==
    /\ th[t].pc = "D_dec"
    /\ activeNum' = [activeNum EXCEPT ![th[t].client] = DecreaseActiveNumber(@)]
    /\ th' = [th EXCEPT ![t].activeNumber = DecreaseActiveNumber(activeNum[th[t].client]),
                        ![t].pc = "D_lock"]
    /\ di' = [di EXCEPT ![th[t].inv].decrements = @ + 1]
    /\ UNCHANGED <<exchangeClientMap, clientState, closeCalls, zk, apollo>>

\* di.setClient(nil), first half: clientGuard.Lock() is requested.
DestroyLock(t) ==
    /\ th[t].pc = "D_lock"
    /\ ~di[th[t].inv].writerWaiting
    /\ di' = [di EXCEPT ![th[t].inv].writerWaiting = TRUE]
    /\ th' = [th EXCEPT ![t].pc = "D_set"]
    /\ UNCHANGED <<exchangeClientMap, activeNum, clientState, closeCalls, zk, apollo>>

\* A Destroy that evicts and closes whatever the count is.
LastReferenceAlways(activeNumber) == TRUE
\* Whether Destroy evicts and closes the client it released.
LastReference(activeNumber) == activeNumber = 0

\* di.setClient(nil), second half: the lock is held once no reader is left.
DestroySetClient(t) ==
    /\ th[t].pc = "D_set"
    /\ di[th[t].inv].readers = {}
    /\ di' = [di EXCEPT ![th[t].inv].client = Nil, ![th[t].inv].writerWaiting = FALSE]
    /\ th' = [th EXCEPT ![t].pc = IF LastReference(th[t].activeNumber)
                                  THEN "D_delete" ELSE "D_done"]
    /\ UNCHANGED <<exchangeClientMap, activeNum, clientState, closeCalls, zk, apollo>>

\* The key Destroy evicts: di.GetURL().Location
EvictKey(d) == d.url.Location

\* exchangeClientMap.Delete(di.GetURL().Location)
DestroyDelete(t) ==
    /\ th[t].pc = "D_delete"
    /\ exchangeClientMap' = [exchangeClientMap EXCEPT ![EvictKey(di[th[t].inv])] = Nil]
    /\ th' = [th EXCEPT ![t].pc = "D_close"]
    /\ UNCHANGED <<activeNum, clientState, closeCalls, di, zk, apollo>>

\* client.Close()
DestroyClose(t) ==
    /\ th[t].pc = "D_close"
    /\ clientState' = [clientState EXCEPT ![th[t].client] = "closed"]
    /\ closeCalls' = [closeCalls EXCEPT ![th[t].client] = @ + 1]
    /\ th' = [th EXCEPT ![t].pc = "D_done"]
    /\ UNCHANGED <<exchangeClientMap, activeNum, di, zk, apollo>>

\* The body has returned: quitOnce is done and Destroy returns.
DestroyReturn(t) ==
    /\ th[t].pc = "D_done"
    /\ di' = [di EXCEPT ![th[t].inv].quitOnce = "done"]
    /\ th' = [th EXCEPT ![t].pc = "idle"]
    /\ UNCHANGED <<exchangeClientMap, activeNum, clientState, closeCalls, zk, apollo>>

\* An invoker is constructed, with a pooled client or with none.
Construct(t, i, url, pooled) ==
    IF pooled THEN Refer(t, i, url) ELSE ConstructWithoutClient(t, i, url)

DestroySteps(t) ==
    \/ DestroyWaitReturn(t)
    \/ DestroyBase(t)
    \/ DestroyGetClient(t)
    \/ DestroyDecrease(t)
    \/ DestroyLock(t)
    \/ DestroySetClient(t)
    \/ DestroyDelete(t)
    \/ DestroyClose(t)
    \/ DestroyReturn(t)

\* ------------------------------------------------------------------ Invoke
\* An invocation: its method name, first argument (a method name, or a value
\* that is no string), async attachment, callback, reply slot and trace span.
NotAString == "#int"
MkInvocation(method, arg0, async, callback, reply, span) ==
    [method |-> method, arg0 |-> arg0, async |-> async, callback |-> callback,
     reply |-> reply, span |-> span]

LifecycleInvocations == {MkInvocation("foo", "foo", <<>>, FALSE, "empty", "none")}
InvokeInvocations ==
    {MkInvocation("foo", "foo", <<>>, FALSE, "empty", "none"),
     MkInvocation("foo", "bar", S_false, TRUE, "nil", "none"),
     MkInvocation("foo", "foo", S_true, TRUE, "empty", "ok"),
     MkInvocation("foo", "bar", S_true, FALSE, "empty", "none"),
     MkInvocation("bar", "bar", <<"1">>, FALSE, "nil", "fail"),
     MkInvocation("bar", "foo", S_bad, FALSE, "empty", "none"),
     MkInvocation("$invoke", "foo", <<>>, FALSE, "empty", "none"),
     MkInvocation("$invoke", NotAString, S_true, FALSE, "empty", "none")}

AttachmentKeys ==
    {PATH_KEY, INTERFACE_KEY, GROUP_KEY, TOKEN_KEY, TIMEOUT_KEY, VERSION_KEY, ASYNC_KEY,
     TRACE_KEY}
\* RPCInvocation.SetAttachments / AttachmentsByKey
SetAttachments(att, k, v) == [att EXCEPT ![k] = v]
AttachmentsByKey(att, k, d) == IF att[k] # <<>> THEN att[k] ELSE d

ErrDestroyedInvoker == "ErrDestroyedInvoker"
ErrClientClosed == "ErrClientClosed"
ErrNoReply == "ErrNoReply"
TransportError == "TransportError"
NoError == "nil"

\* The invocation is drawn where Invoke first reads it (line 371); until then
\* the call holds none.
NoInvocation == MkInvocation("", "", <<>>, FALSE, "nil", "none")
\* The attachments an invocation arrives with: its async flag.
InitialAttachments(v) == [k \in AttachmentKeys |-> IF k = ASYNC_KEY THEN v.async ELSE <<>>]

\* The locals of one Invoke. destroyedBefore, readClient, markedAtExam and
\* submitted record what the call has seen and done.
NewCall(d) ==
    [kind |-> "invoke", invocation |-> NoInvocation,
     attachments |-> InitialAttachments(NoInvocation),
     reply |-> "nil", timeout |-> 0, err |-> NoError, rest |-> "unset", attrs |-> "nil",
     submitted |-> <<>>, readClient |-> FALSE, markedAtExam |-> FALSE,
     destroyedBefore |-> (d.quitOnce = "done")]
\* inv := invocation.(*invocation_impl.RPCInvocation)
WithInvocation(c, v) ==
    [c EXCEPT !.invocation = v, !.attachments = InitialAttachments(v), !.reply = v.reply]

\* for _, k := range attachmentKey: copy the non-empty URL parameters.
RECURSIVE CopyParams(_, _, _)
CopyParams(att, url, n) ==
    IF n = 0 THEN att
    ELSE LET a == CopyParams(att, url, n - 1)
             k == attachmentKey[n]
             v == GetParam(url, k, <<>>)
         IN  IF Len(v) > 0 THEN SetAttachments(a, k, v) ELSE a

\* appendCtx: an injected span adds its attachment; a failed injection is logged.
AppendCtx(att, span) == IF span = "ok" THEN SetAttachments(att, TRACE_KEY, <<"s">>) ELSE att

\* getTimeout: the method name is the first argument on a generic URL.
TimeoutPanics(d, v) == GetParamBool(d.url, GENERIC_KEY, FALSE) /\ v.arg0 = NotAString
TimeoutMethodName(d, v) ==
    IF GetParamBool(d.url, GENERIC_KEY, FALSE) THEN v.arg0 ELSE v.method
\* A getTimeout that ignores the method-level parameter.
GetTimeoutServiceOnly(d, v) == d.timeout
\* getTimeout's result: the method-level parameter if it parses, else di.timeout.
GetTimeout(d, v) ==
    LET timeout == GetParam(d.url, MethodTimeoutKey(TimeoutMethodName(d, v)), <<>>)
        t == ParseDuration(timeout)
    IN  IF Len(timeout) # 0 /\ t.ok THEN t.v ELSE d.timeout
\* A getTimeout that writes the duration without converting it to milliseconds.
TimeoutAttachmentRaw(t) == Itoa(t)
\* What getTimeout writes into the attachments for the timeout it returns.
TimeoutAttachment(t) == Itoa(Milliseconds(t))

\* An Invoke that submits a synchronous call whatever its reply slot.
DispatchKindNoReplyCheck(async, v) ==
    IF async THEN (IF v.callback THEN "AsyncRequest" ELSE "Send") ELSE "Request"
\* An Invoke that sends an async call without callback as a blocking Request.
DispatchKindNoSend(async, v) ==
    IF async /\ v.callback THEN "AsyncRequest"
    ELSE IF v.reply = "nil" THEN "none" ELSE "Request"
\* The client operation Invoke submits: "none" is the ErrNoReply case.
DispatchKind(async, v) ==
    IF async THEN (IF v.callback THEN "AsyncRequest" ELSE "Send")
    ELSE IF v.reply = "nil" THEN "none" ELSE "Request"

\* An Invoke without its first availability check.
NeverRejectedAtEntry(d) == FALSE
\* Invoke's first check: the invoker is not available.
RejectedAtEntry(d) == ~BaseIsAvailable(d)

\* An Invoke without the availability check under the read lock.
NeverRejectedAtRecheck(d) == FALSE
\* Invoke's second check, under the read lock: the invoker is being destroyed.
RejectedAtRecheck(d) == ~BaseIsAvailable(d)

\* Invoke is called; an unavailable invoker is refused at once.
InvokeCall(t, i) ==
    /\ Ready(t)
    /\ di[i].built
    /\ IF RejectedAtEntry(di[i])
       THEN th' = [th EXCEPT ![t] = [IdleThread EXCEPT !.pc = "returned", !.inv = i,
                       !.call = [NewCall(di[i]) EXCEPT !.err = ErrDestroyedInvoker]]]
       ELSE th' = [th EXCEPT ![t] = [IdleThread EXCEPT !.pc = "I_rlock", !.inv = i,
                       !.call = NewCall(di[i])]]
    /\ UNCHANGED <<exchangeClientMap, activeNum, clientState, closeCalls, di, zk, apollo>>

\* di.clientGuard.RLock(): blocked while a writer waits for or holds the lock.
InvokeRLock(t) ==
    /\ th[t].pc = "I_rlock"
    /\ ~di[th[t].inv].writerWaiting
    /\ di' = [di EXCEPT ![th[t].inv].readers = @ \cup {t}]
    /\ th' = [th EXCEPT ![t].pc = "I_exam"]
    /\ UNCHANGED <<exchangeClientMap, activeNum, clientState, closeCalls, zk, apollo>>

\* if di.client == nil: ErrClientClosed (the deferred RUnlock runs).
InvokeExamine(t) ==
    /\ th[t].pc = "I_exam"
    /\ IF di[th[t].inv].client = Nil
       THEN /\ th' = [th EXCEPT ![t].pc = "returned", ![t].call.readClient = TRUE,
                       ![t].call.markedAtExam = ~BaseIsAvailable(di[th[t].inv]),
                       ![t].call.err = ErrClientClosed]
            /\ di' = [di EXCEPT ![th[t].inv].readers = @ \ {t}]
       ELSE /\ th' = [th EXCEPT ![t].pc = "I_recheck", ![t].call.readClient = TRUE,
                       ![t].client = di[th[t].inv].client,
                       ![t].call.markedAtExam = ~BaseIsAvailable(di[th[t].inv])]
            /\ di' = di
    /\ UNCHANGED <<exchangeClientMap, activeNum, clientState, closeCalls, zk, apollo>>

\* The attachments before getTimeout: path, the copied parameters, the span.
PreparedAttachments(d, c) ==
    AppendCtx(CopyParams(SetAttachments(c.attachments, PATH_KEY,
                                        GetParam(d.url, INTERFACE_KEY, <<>>)),
                         d.url, Len(attachmentKey)),
              c.invocation.span)

\* strconv.ParseBool(inv.AttachmentsByKey(ASYNC_KEY, "false")), false on error.
AsyncFlag(att) ==
    LET b == ParseBool(AttachmentsByKey(att, ASYNC_KEY, S_false)) IN b.ok /\ b.v

\* The call's locals once the operation is chosen (lines 371-409).
Dispatched(d, c) ==
    LET att == PreparedAttachments(d, c)
        timeout == GetTimeout(d, c.invocation)
        kind == DispatchKind(AsyncFlag(att), c.invocation)
    IN  [c EXCEPT !.attachments = SetAttachments(att, TIMEOUT_KEY, TimeoutAttachment(timeout)),
                  !.timeout = timeout,
                  !.err = IF kind = "none" THEN ErrNoReply ELSE NoError,
                  !.submitted = IF kind = "none" THEN <<>> ELSE <<kind>>]

\* The second availability check, then the attachments, the serialization
\* default, the timeout and the submission of the operation to the client.
InvokeDispatch(t, v) ==
    LET i == th[t].inv
        d == di[i]
        c == WithInvocation(th[t].call, v)
        url == IF GetParam(d.url, SERIALIZATION_KEY, <<>>) = <<>>
               THEN SetParam(d.url, SERIALIZATION_KEY, HESSIAN2_SERIALIZATION)
               ELSE d.url
    IN  /\ th[t].pc = "I_recheck"
        /\ IF RejectedAtRecheck(d)
           THEN /\ th' = [th EXCEPT ![t].pc = "returned", ![t].call.err = ErrDestroyedInvoker]
                /\ di' = [di EXCEPT ![i].readers = @ \ {t}]
           ELSE IF TimeoutPanics(d, c.invocation)
           THEN /\ th' = [th EXCEPT ![t].pc = "panicked",
                           ![t].call.attachments = PreparedAttachments(d, c)]
                /\ di' = [di EXCEPT ![i].readers = @ \ {t}, ![i].url = url]
           ELSE IF Dispatched(d, c).submitted = <<>>
           THEN /\ th' = [th EXCEPT ![t].pc = "returned", ![t].call = Dispatched(d, c)]
                /\ di' = [di EXCEPT ![i].readers = @ \ {t}, ![i].url = url]
           ELSE /\ th' = [th EXCEPT ![t].pc = "I_flight", ![t].call = Dispatched(d, c)]
                /\ di' = [di EXCEPT ![i].url = url]
        /\ UNCHANGED <<exchangeClientMap, activeNum, clientState, closeCalls, zk, apollo>>

\* The reply slot and response attributes after the client operation returned:
\* only a successful blocking Request fills them.
Responded(c, ok) ==
    LET filled == ok /\ c.submitted = <<"Request">>
        reply == IF filled THEN "populated" ELSE c.reply
        restAttrs == IF filled THEN "attrs" ELSE "nil"
    IN  [c EXCEPT !.reply = reply,
                  !.err = IF ok THEN NoError ELSE TransportError,
                  !.rest = IF ok THEN reply ELSE "unset",
                  !.attrs = IF ok THEN restAttrs ELSE "nil"]

\* The client operation returns (nil or a transport error) and Invoke returns.
InvokeReturn(t, ok) ==
    /\ th[t].pc = "I_flight"
    /\ th' = [th EXCEPT ![t].pc = "returned", ![t].call = Responded(th[t].call, ok)]
    /\ di' = [di EXCEPT ![th[t].inv].readers = @ \ {t}]
    /\ UNCHANGED <<exchangeClientMap, activeNum, clientState, closeCalls, zk, apollo>>

InvokeSteps(t, V) ==
    \/ InvokeRLock(t)
    \/ InvokeExamine(t)
    \/ \E v \in V : InvokeDispatch(t, v)
    \/ \E ok \in BOOLEAN : InvokeReturn(t, ok)

\* ------------------------------------------------------------- IsAvailable
\* ExchangeClient.IsAvailable: a closed client is not available, an open one
\* is while its connection is up.
ClientIsAvailable(c, up) == clientState[c] = "open" /\ up

\* An IsAvailable that answers true when no client is bound.
IsAvailableResultUnbound(client, reported) == IF client # Nil THEN reported ELSE TRUE
\* if client != nil { return client.IsAvailable() }; return false
IsAvailableResult(client, reported) == IF client # Nil THEN reported ELSE FALSE

\* The locals of one IsAvailable; destroyedBefore records that a Destroy had
\* returned when the call began.
NewAvailableCall(d) ==
    [kind |-> "isAvailable", asked |-> FALSE, reported |-> FALSE, result |-> FALSE,
     destroyedBefore |-> (d.quitOnce = "done")]

\* client := di.getClient(): the read lock is taken, the field read, the lock
\* released. Without a client the call returns at once.
IsAvailableCall(t, i) ==
    /\ Ready(t)
    /\ di[i].built
    /\ ~di[i].writerWaiting
    /\ IF di[i].client # Nil
       THEN th' = [th EXCEPT ![t] = [IdleThread EXCEPT !.pc = "A_ask", !.inv = i,
                       !.client = di[i].client, !.call = NewAvailableCall(di[i])]]
       ELSE th' = [th EXCEPT ![t] = [IdleThread EXCEPT !.pc = "returned", !.inv = i,
                       !.call = [NewAvailableCall(di[i]) EXCEPT
                                    !.result = IsAvailableResult(Nil, FALSE)]]]
    /\ UNCHANGED <<exchangeClientMap, activeNum, clientState, closeCalls, di, zk, apollo>>

\* return client.IsAvailable(), asked of the client that was read.
IsAvailableAsk(t, up) ==
    /\ th[t].pc = "A_ask"
    /\ LET reported == ClientIsAvailable(th[t].client, up)
       IN  th' = [th EXCEPT ![t].pc = "returned", ![t].call.asked = TRUE,
                            ![t].call.reported = reported,
                            ![t].call.result = IsAvailableResult(th[t].client, reported)]
    /\ UNCHANGED <<exchangeClientMap, activeNum, clientState, closeCalls, di, zk, apollo>>

AvailableSteps(t, I) ==
    \/ \E i \in I : IsAvailableCall(t, i)
    \/ \E up \in BOOLEAN : IsAvailableAsk(t, up)

\* --------------------------------------------------------------- setClient
\* setClient(client), first half: clientGuard.Lock() is requested.
SetClientLock(t, i, c) ==
    /\ Ready(t)
    /\ di[i].built
    /\ clientState[c] = "open"
    /\ ~di[i].writerWaiting
    /\ di' = [di EXCEPT ![i].writerWaiting = TRUE]
    /\ th' = [th EXCEPT ![t] = [IdleThread EXCEPT !.pc = "S_set", !.inv = i, !.client = c]]
    /\ UNCHANGED <<exchangeClientMap, activeNum, clientState, closeCalls, zk, apollo>>

\* setClient(client), second half: di.client = client, and the deferred Unlock.
SetClientAssign(t) ==
    /\ th[t].pc = "S_set"
    /\ di[th[t].inv].readers = {}
    /\ di' = [di EXCEPT ![th[t].inv].client = th[t].client,
                        ![th[t].inv].writerWaiting = FALSE]
    /\ th' = [th EXCEPT ![t].pc = "idle"]
    /\ UNCHANGED <<exchangeClientMap, activeNum, clientState, closeCalls, zk, apollo>>

SetClientSteps(t, I) ==
    \/ \E i \in I, c \in Clients : SetClientLock(t, i, c)
    \/ SetClientAssign(t)

\* ------------------------------------------- the zookeeper configuration
MaxPublishes == 2
MaxDestroyCalls == 2
NumListeners == 2
Listeners == 1..NumListeners

\* A parameter that is not set.
NoParam == "#absent"
Namespaces == {<<>>, S_ns}
Base64Params == {NoParam, S_true, S_false, S_bad}

\* The struct newZookeeperDynamicConfiguration returns: the client connected,
\* HandleClientRestart started, the listeners made, rootPath created. done is
\* not assigned.
NewZookeeperDynamicConfiguration(namespace, base64) ==
    LET rootPath == <<"/">> \o (IF Len(namespace) = 0 THEN DEFAULT_GROUP ELSE namespace)
                    \o S_slash_config
    IN  [NoZookeeper EXCEPT
            !.built = TRUE, !.rootPath = rootPath,
            !.base64Enabled = IF base64 = NoParam THEN FALSE ELSE ParseBool(base64).v,
            !.client = "open", !.wg = 1, !.listener = "open",
            !.nodes = Create(<<>>, rootPath)]

\* newZookeeperDynamicConfiguration(url): a base64 parameter that is no
\* boolean panics, a client that cannot connect is an error.
ZkConstruct(t, namespace, base64, connected) ==
    /\ Ready(t)
    /\ ~zk.built
    /\ IF base64 # NoParam /\ ~ParseBool(base64).ok
       THEN /\ zk' = zk
            /\ th' = [th EXCEPT ![t] = [IdleThread EXCEPT !.pc = "panicked",
                            !.call = [kind |-> "newZookeeper", err |-> "panic"]]]
       ELSE IF ~connected
       THEN /\ zk' = zk
            /\ th' = [th EXCEPT ![t] = [IdleThread EXCEPT !.pc = "returned",
                            !.call = [kind |-> "newZookeeper", err |-> "error"]]]
       ELSE /\ zk' = NewZookeeperDynamicConfiguration(namespace, base64)
            /\ th' = [th EXCEPT ![t] = [IdleThread EXCEPT !.pc = "returned",
                            !.call = [kind |-> "newZookeeper", err |-> "nil"]]]
    /\ UNCHANGED <<exchangeClientMap, activeNum, clientState, closeCalls, di, apollo>>

\* What GetProperties(key, group) finds: the content at the resolved path,
\* decoded when base64 is enabled.
GetProperties(z, key, group) ==
    LET path == z.rootPath \o <<"/">> \o ResolveKey(key, group)
        content == GetContent(z.nodes, path)
        decoded == DecodeString(content.v)
    IN  IF ~content.ok THEN [outcome |-> "error", path |-> path, value |-> <<>>]
        ELSE IF ~z.base64Enabled THEN [outcome |-> "value", path |-> path, value |-> content.v]
        ELSE IF ~decoded.ok THEN [outcome |-> "error", path |-> path, value |-> <<>>]
        ELSE [outcome |-> "value", path |-> path, value |-> decoded.v]

\* The last PublishConfig, if it was one of (key, group).
PublishedFor(z, key, group) ==
    IF z.published.made /\ z.published.key = key /\ z.published.group = group
    THEN z.published ELSE NoPublish

\* GetProperties is called; got records the call and the PublishConfig of the
\* same key and group that it follows, if it follows one.
ZkGetProperties(key, group) ==
    /\ zk.built
    /\ zk' = [zk EXCEPT !.got =
                IF ResolvePanics(key, group)
                THEN [NoGet EXCEPT !.outcome = "panic", !.key = key, !.group = group,
                                   !.after = PublishedFor(zk, key, group)]
                ELSE [NoGet EXCEPT !.outcome = GetProperties(zk, key, group).outcome,
                                   !.key = key, !.group = group,
                                   !.path = GetProperties(zk, key, group).path,
                                   !.value = GetProperties(zk, key, group).value,
                                   !.after = PublishedFor(zk, key, group)]]
    /\ UNCHANGED <<exchangeClientMap, activeNum, clientState, closeCalls, di, th, apollo>>

\* PublishConfig(key, group, value): the value, encoded when base64 is
\* enabled, is written at getPath(key, group).
ZkPublishConfig(key, group, value) ==
    /\ zk.built
    /\ zk.publishes < MaxPublishes
    /\ LET path == getPath(zk.rootPath, key, group)
           valueBytes == IF zk.base64Enabled THEN EncodeToString(value) ELSE value
       IN  zk' = [zk EXCEPT !.nodes = CreateWithValue(@, path, valueBytes),
                            !.publishes = @ + 1,
                            !.published = [made |-> TRUE, key |-> key, group |-> group,
                                           value |-> value]]
    /\ UNCHANGED <<exchangeClientMap, activeNum, clientState, closeCalls, di, th, apollo>>

\* The entry of the cacheListener a listener goes to: the options are not read.
ZkListenerKey(key, group) == key

ZkAddListener(key, l, group) ==
    /\ zk.built
    /\ zk' = [zk EXCEPT !.keyListeners = AddToEntry(@, ZkListenerKey(key, group), l),
                        !.registered = @ \cup {<<group, key, l>>}]
    /\ UNCHANGED <<exchangeClientMap, activeNum, clientState, closeCalls, di, th, apollo>>

ZkRemoveListener(key, l, group) ==
    /\ zk.built
    /\ zk' = [zk EXCEPT !.keyListeners = RemoveFromEntry(@, ZkListenerKey(key, group), l),
                        !.registered = @ \ {<<group, key, l>>}]
    /\ UNCHANGED <<exchangeClientMap, activeNum, clientState, closeCalls, di, th, apollo>>

\* Destroy is called.
ZkDestroyCall(t) ==
    /\ Ready(t)
    /\ zk.built
    /\ zk.destroyCalls < MaxDestroyCalls
    /\ zk' = [zk EXCEPT !.destroyCalls = @ + 1]
    /\ th' = [th EXCEPT ![t] = [IdleThread EXCEPT !.pc = "Z_listener",
                    !.call = [kind |-> "zkDestroy"]]]
    /\ UNCHANGED <<exchangeClientMap, activeNum, clientState, closeCalls, di, apollo>>

\* if c.listener != nil { c.listener.Close() }
ZkDestroyListener(t) ==
    /\ th[t].pc = "Z_listener"
    /\ zk' = IF zk.listener # "nil"
             THEN [zk EXCEPT !.listener = "closed", !.listenerCloses = @ + 1]
             ELSE zk
    /\ th' = [th EXCEPT ![t].pc = "Z_done"]
    /\ UNCHANGED <<exchangeClientMap, activeNum, clientState, closeCalls, di, apollo>>

\* close(c.done): closing a nil or a closed channel panics. c.wg.Wait() and
\* closeConfigs come after a close that returned.
ZkDestroyCloseDone(t) ==
    /\ th[t].pc = "Z_done"
    /\ IF zk.done = "open"
       THEN /\ zk' = [zk EXCEPT !.done = "closed"]
            /\ th' = [th EXCEPT ![t].pc = "Z_wait"]
       ELSE /\ zk' = zk
            /\ th' = [th EXCEPT ![t].pc = "panicked"]
    /\ UNCHANGED <<exchangeClientMap, activeNum, clientState, closeCalls, di, apollo>>

\* IsAvailable: false once done is closed; a nil channel is never ready.
ZkIsAvailable(t) ==
    /\ Ready(t)
    /\ zk.built
    /\ th' = [th EXCEPT ![t] = [IdleThread EXCEPT !.pc = "returned",
                    !.call = [kind |-> "zkIsAvailable", result |-> zk.done # "closed"]]]
    /\ UNCHANGED <<exchangeClientMap, activeNum, clientState, closeCalls, di, zk, apollo>>

\* ---------------------------------------------- the apollo configuration
\* key = k.Group + key
ApolloListenerKey(key, group) == group \o key

ApolloAddListener(key, l, group) ==
    /\ apollo' = [apollo EXCEPT
                     !.listeners = AddToEntry(@, ApolloListenerKey(key, group), l),
                     !.registered = @ \cup {<<group, key, l>>}]
    /\ UNCHANGED <<exchangeClientMap, activeNum, clientState, closeCalls, di, th, zk>>

ApolloRemoveListener(key, l, group) ==
    /\ apollo' = [apollo EXCEPT
                     !.listeners = RemoveFromEntry(@, ApolloListenerKey(key, group), l),
                     !.registered = @ \ {<<group, key, l>>}]
    /\ UNCHANGED <<exchangeClientMap, activeNum, clientState, closeCalls, di, th, zk>>

Parsers == {"properties", "yaml"}
ApolloSetParser(p) ==
    /\ apollo' = [apollo EXCEPT !.parser = p]
    /\ UNCHANGED <<exchangeClientMap, activeNum, clientState, closeCalls, di, th, zk>>

UnsupportedOperation == "unsupport operation"
\* A PublishConfig that succeeds.
ApolloPublishConfigAccepts(key, group, value) == [err |-> NoError]
\* What apollo's PublishConfig returns.
ApolloPublishConfigResult(key, group, value) == [err |-> UnsupportedOperation]
\* What apollo's GetConfigKeysByGroup returns: no set, and the error.
ApolloGetConfigKeysByGroupResult(group) == [set |-> "nil", err |-> UnsupportedOperation]

ApolloPublishConfig(t, key, group, value) ==
    /\ Ready(t)
    /\ th' = [th EXCEPT ![t] = [IdleThread EXCEPT !.pc = "returned",
                    !.call = [kind |-> "apolloPublishConfig", group |-> group, set |-> "nil",
                              err |-> ApolloPublishConfigResult(key, group, value).err]]]
    /\ UNCHANGED <<exchangeClientMap, activeNum, clientState, closeCalls, di, zk, apollo>>

ApolloGetConfigKeysByGroup(t, group) ==
    /\ Ready(t)
    /\ th' = [th EXCEPT ![t] = [IdleThread EXCEPT !.pc = "returned",
                    !.call = [kind |-> "apolloGetConfigKeysByGroup", group |-> group,
                              set |-> ApolloGetConfigKeysByGroupResult(group).set,
                              err |-> ApolloGetConfigKeysByGroupResult(group).err]]]
    /\ UNCHANGED <<exchangeClientMap, activeNum, clientState, closeCalls, di, zk, apollo>>

\* ---------------------------------------------------------- the registries
S_address ==
    <<"1", "2", "7", ".", "0", ".", "0", ".", "2", ":", "2", "1", "8", "1">>
S_addresses ==
    <<"1", "2", "7", ".", "0", ".", "0", ".", "2", ":", "2", "1", "8", "1", ",", "1", "2", "8",
      ".", "0", ".", "0", ".", "1", ":", "2", "1", "8", "1">>
S_nacos_address ==
    <<"n", "a", "c", "o", "s", ":", "/", "/", "1", "2", "7", ".", "0", ".", "0", ".", "1", ":",
      "8", "8", "4", "8">>
S_zookeeper_address ==
    <<"z", "o", "o", "k", "e", "e", "p", "e", "r", ":", "/", "/", "1", "2", "7", ".", "0", ".",
      "0", ".", "1", ":", "2", "1", "8", "1">>
S_nacos == <<"n", "a", "c", "o", "s">>
S_mock == <<"m", "o", "c", "k">>
S_registry == <<"r", "e", "g", "i", "s", "t", "r", "y">>
S_scheme_separator == <<":", "/", "/">>
RegistryAddresses == {S_address, S_addresses, S_nacos_address, S_zookeeper_address}

\* strings.Index(s, sub): the index from 0 of the first occurrence of sub in
\* s, below 0 when there is none.
IndexOfString(s, sub) ==
    LET I == {i \in 0..(Len(s) - Len(sub)) : SubSeq(s, i + 1, i + Len(sub)) = sub}
    IN  IF I = {} THEN 0 - 1 ELSE CHOOSE i \in I : \A j \in I : i <= j

\* A RegistryConfig: the fields the registry URL is made of.
RegistryConfig(protocol, address) == [Protocol |-> protocol, Address |-> address]

\* A translation that sets the protocol and leaves the address whole.
translateKeepsAddress(c) ==
    LET i == IndexOfString(c.Address, S_scheme_separator)
    IN  IF i >= 0 THEN [c EXCEPT !.Protocol = Slice(c.Address, 0, i)] ELSE c
\* translateRegistryAddress: an address with a scheme is split into the
\* protocol and the rest; one without is left as it is.
translateRegistryAddress(c) ==
    LET i == IndexOfString(c.Address, S_scheme_separator)
    IN  IF i >= 0
        THEN [c EXCEPT !.Protocol = Slice(c.Address, 0, i),
                       !.Address = Slice(c.Address, i + Len(S_scheme_separator),
                                         Len(c.Address))]
        ELSE c

\* Whether the registry named k is loaded: every one for an empty target list.
IsTarget(targetRegistries, k) ==
    Len(targetRegistries) = 0 \/ \E n \in 1..Len(targetRegistries) : targetRegistries[n] = k

\* A registry URL located at the first address of the list alone.
RegistryURLFirstAddress(c) ==
    LET a == translateRegistryAddress(c).Address
        i == IndexOfString(a, <<",">>)
    IN  [Protocol |-> S_registry, Location |-> IF i >= 0 THEN Slice(a, 0, i) ELSE a,
         registry |-> translateRegistryAddress(c).Protocol]
\* The registry URL of a RegistryConfig: its location is the translated address.
RegistryURL(c) ==
    [Protocol |-> S_registry, Location |-> translateRegistryAddress(c).Address,
     registry |-> translateRegistryAddress(c).Protocol]

\* loadRegistries: the URLs of the target registries, the registries taken
\* in the order the map yields them.
RECURSIVE loadRegistries(_, _, _)
loadRegistries(targetRegistries, registries, order) ==
    IF Len(order) = 0 THEN <<>>
    ELSE (IF IsTarget(targetRegistries, Head(order))
          THEN <<RegistryURL(registries[Head(order)])>> ELSE <<>>)
         \o loadRegistries(targetRegistries, registries, Tail(order))

RegistryIds == {"shanghai1", "hangzhou"}
RegistryMaps ==
    {[k \in {"shanghai1"} |-> RegistryConfig(S_mock, a)] : a \in RegistryAddresses} \cup
    {[k \in RegistryIds |-> RegistryConfig(S_mock, IF k = "shanghai1" THEN a ELSE S_address)] :
        a \in {S_addresses}}
RegistryTargets == {<<"shanghai1">>, <<"hangzhou">>, <<>>}
\* The orders a map of registries can be ranged over in.
Orders(registries) ==
    {o \in UNION {[1..n -> DOMAIN registries] : n \in 1..2} :
        /\ Len(o) = Cardinality(DOMAIN registries)
        /\ \A k \in DOMAIN registries : \E n \in 1..Len(o) : o[n] = k}

\* urls := loadRegistries(target, regs, common.CONSUMER)
LoadRegistriesCall(t, target, regs, order) ==
    /\ Ready(t)
    /\ th' = [th EXCEPT ![t] = [IdleThread EXCEPT !.pc = "returned",
                    !.call = [kind |-> "loadRegistries", target |-> target, regs |-> regs,
                              urls |-> loadRegistries(target, regs, order)]]]
    /\ UNCHANGED <<exchangeClientMap, activeNum, clientState, closeCalls, di, zk, apollo>>

\* reg.translateRegistryAddress()
TranslateCall(t, address) ==
    /\ Ready(t)
    /\ th' = [th EXCEPT ![t] = [IdleThread EXCEPT !.pc = "returned",
                    !.call = [kind |-> "translateRegistryAddress", address |-> address,
                              reg |-> translateRegistryAddress(RegistryConfig(<<>>, address))]]]
    /\ UNCHANGED <<exchangeClientMap, activeNum, clientState, closeCalls, di, zk, apollo>>

\* ------------------------------------------------------ the specifications
NextOver(I, U, V, W) ==
    \E t \in Threads :
        \/ \E i \in I, u \in U, w \in W : Construct(t, i, u, w)
        \/ \E i \in I : DestroyCall(t, i)
        \/ \E i \in I : InvokeCall(t, i)
        \/ DestroySteps(t)
        \/ InvokeSteps(t, V)

\* The lifecycle: every invoker slot, one URL per endpoint, pooled clients.
Next == NextOver(Invokers, LifecycleURLs, LifecycleInvocations, {TRUE})
Spec == Init /\ [][Next]_vars

\* Invocation: one invoker, with or without a client, the URLs and invocations varied.
NextInvoke == NextOver({1}, InvokeURLs, InvokeInvocations, BOOLEAN)
SpecInvoke == Init /\ [][NextInvoke]_vars

\* Availability: one invoker, with or without a client, asked while it is
\* constructed, invoked and destroyed.
NextAvailable ==
    \/ NextOver({1}, LifecycleURLs, LifecycleInvocations, BOOLEAN)
    \/ \E t \in Threads : AvailableSteps(t, {1})
SpecAvailable == Init /\ [][NextAvailable]_vars

\* Reconnection: two invokers, their client fields set anew by setClient
\* while they are invoked and destroyed.
NextDetach ==
    \/ NextOver({1, 2}, LifecycleURLs, LifecycleInvocations, {TRUE})
    \/ \E t \in Threads : SetClientSteps(t, {1, 2})
SpecDetach == Init /\ [][NextDetach]_vars

\* The zookeeper configuration: constructed, published to and read.
ZkKeys == {S_dubbo_properties, S_configurators, S_ab}
ZkGroups == {<<>>, S_dubbo}
ZkValues == {<<104, 105>>, <<255, 254, 253, 1>>}
NextZookeeper ==
    \/ \E t \in Threads, ns \in Namespaces, b \in Base64Params, ok \in BOOLEAN :
           ZkConstruct(t, ns, b, ok)
    \/ \E key \in ZkKeys, group \in ZkGroups, value \in ZkValues :
           ZkPublishConfig(key, group, value)
    \/ \E key \in ZkKeys, group \in ZkGroups : ZkGetProperties(key, group)
SpecZookeeper == Init /\ [][NextZookeeper]_vars

\* The zookeeper configuration: constructed, asked and destroyed.
NextZkDestroy ==
    \E t \in Threads :
        \/ \E ns \in Namespaces, b \in Base64Params, ok \in BOOLEAN : ZkConstruct(t, ns, b, ok)
        \/ ZkDestroyCall(t)
        \/ ZkDestroyListener(t)
        \/ ZkDestroyCloseDone(t)
        \/ ZkIsAvailable(t)
SpecZkDestroy == Init /\ [][NextZkDestroy]_vars

\* The listeners of both configurations.
ApolloGroups == {S_a, S_ab}
ApolloKeys == {S_bc, S_c}
NextListeners ==
    \/ \E t \in Threads : ZkConstruct(t, <<>>, NoParam, TRUE)
    \/ \E group \in ZkGroups, l \in Listeners : ZkAddListener(S_dubbo_properties, l, group)
    \/ \E group \in ZkGroups, l \in Listeners : ZkRemoveListener(S_dubbo_properties, l, group)
    \/ \E key \in ApolloKeys, group \in ApolloGroups, l \in Listeners :
           ApolloAddListener(key, l, group)
    \/ \E key \in ApolloKeys, group \in ApolloGroups, l \in Listeners :
           ApolloRemoveListener(key, l, group)
SpecListeners == Init /\ [][NextListeners]_vars

\* The apollo configuration: its listeners and parser set, and the two
\* operations it does not support.
NextApollo ==
    \/ \E key \in ApolloKeys, l \in Listeners : ApolloAddListener(key, l, S_a)
    \/ \E key \in ApolloKeys, l \in Listeners : ApolloRemoveListener(key, l, S_a)
    \/ \E p \in Parsers : ApolloSetParser(p)
    \/ \E t \in Threads, key \in ApolloKeys, group \in ApolloGroups \cup {<<>>},
          value \in ZkValues : ApolloPublishConfig(t, key, group, value)
    \/ \E t \in Threads, group \in ApolloGroups \cup {<<>>} :
           ApolloGetConfigKeysByGroup(t, group)
SpecApollo == Init /\ [][NextApollo]_vars

\* The registries: loaded and translated.
NextRegistry ==
    \E t \in Threads :
        \/ \E target \in RegistryTargets, regs \in RegistryMaps :
               \E order \in Orders(regs) : LoadRegistriesCall(t, target, regs, order)
        \/ \E address \in RegistryAddresses : TranslateCall(t, address)
SpecRegistry == Init /\ [][NextRegistry]_vars

\* ------------------------------------------------------- lifecycle claims
InDestroyBody(t) ==
    th[t].pc \in {"D_base", "D_get", "D_dec", "D_lock", "D_set", "D_delete", "D_close", "D_done"}
\* The invokers that acquired client c and have not yet decremented its count.
Holders(c) == {i \in Invokers : di[i].bound = c /\ di[i].decrements = 0}
\* The endpoint a client was created for.
ClientEndpoint(c) == di[CHOOSE i \in Invokers : di[i].bound = c].url.Location
Born(c) == clientState[c] # "unborn"

\* C1: however many times and however interleaved Destroy is called on an
\* invoker, its release body runs at most once and has run exactly once when a
\* Destroy has returned: the client's count went down by exactly one for this
\* invoker, the client is detached, and no count is ever negative.
C1_DestroyReleasesOnce ==
    /\ \A i \in Invokers :
        /\ di[i].onceRuns <= 1
        /\ di[i].decrements <= 1
        /\ di[i].quitOnce = "done" =>
              /\ di[i].onceRuns = 1
              /\ di[i].client = Nil
              /\ di[i].decrements = IF di[i].bound = Nil THEN 0 ELSE 1
    /\ \A c \in Clients :
        /\ activeNum[c] >= 0
        /\ Born(c) => activeNum[c] =
              Cardinality({i \in Invokers : di[i].bound = c})
              - Cardinality({i \in Invokers : di[i].bound = c /\ di[i].decrements = 1})
\* Two Destroy calls on one invoker: one ran the body to its end, the other waits.
C1_Witness ==
    \E i \in Invokers, t \in Threads :
        /\ di[i].quitOnce = "done" /\ di[i].decrements = 1
        /\ th[t].pc = "D_wait" /\ th[t].inv = i

\* C3: at most one open exchange client exists per endpoint.
C3_OneOpenClientPerEndpoint ==
    \A c1, c2 \in Clients :
        (/\ clientState[c1] = "open" /\ clientState[c2] = "open"
         /\ ClientEndpoint(c1) = ClientEndpoint(c2)) => c1 = c2

\* C4: a client with a positive reference count is in the pool under its
\* endpoint and is not closed.
C4_NoDanglingReference ==
    \A c \in Clients :
        (Born(c) /\ activeNum[c] > 0) =>
            /\ clientState[c] = "open"
            /\ exchangeClientMap[ClientEndpoint(c)] = c

\* C5: two invokers of one endpoint that both still hold their client hold the
\* same client, and a client's count is the number of invokers holding it.
C5_SharedClientCount ==
    /\ \A i, j \in Invokers :
        (/\ di[i].built /\ di[j].built
         /\ di[i].url.Location = di[j].url.Location
         /\ di[i].bound # Nil /\ di[j].bound # Nil
         /\ di[i].decrements = 0 /\ di[j].decrements = 0) => di[i].bound = di[j].bound
    /\ \A c \in Clients : Born(c) => activeNum[c] = Cardinality(Holders(c))

\* The steps of Destroy after setClient(nil), and the only steps that remove a
\* pool entry or close a client.
C6_StepRule ==
    /\ \A t \in Threads :
        (th[t].pc = "D_set" /\ th'[t].pc # "D_set") =>
            IF th[t].activeNumber = 0
            THEN th'[t].pc = "D_delete"
            ELSE th'[t].pc = "D_done" /\ UNCHANGED <<exchangeClientMap, clientState>>
    /\ \A t \in Threads :
        (th[t].pc = "D_delete" /\ th'[t].pc # "D_delete") =>
            /\ th'[t].pc = "D_close"
            /\ exchangeClientMap'[di[th[t].inv].url.Location] = Nil
    /\ \A t \in Threads :
        (th[t].pc = "D_close" /\ th'[t].pc # "D_close") =>
            clientState'[th[t].client] = "closed"
    /\ \A c \in Clients :
        (clientState[c] # "closed" /\ clientState'[c] = "closed") =>
            \E t \in Threads :
                th[t].pc = "D_close" /\ th[t].client = c /\ th[t].activeNumber = 0
    /\ \A l \in Locations :
        (exchangeClientMap[l] # Nil /\ exchangeClientMap'[l] = Nil) =>
            \E t \in Threads :
                /\ th[t].pc = "D_delete" /\ th[t].activeNumber = 0
                /\ di[th[t].inv].url.Location = l
\* C6: a Destroy whose decrement returned zero removes the pool entry of the
\* invoker's Location and closes the client; one whose decrement returned a
\* positive count goes on to return without touching the pool or the client.
\* The pool loses an entry, and a client is closed, only in a step of a
\* Destroy whose decrement returned zero.
C6_EvictOnlyAtZero ==
    /\ [][C6_StepRule]_vars
    /\ [](\A t \in Threads : th[t].pc \in {"D_delete", "D_close"} => th[t].activeNumber = 0)
\* One Destroy left a shared client open (count still positive), and the Destroy
\* of the last invoker bound to it closed it.
C6_Witness ==
    \E t1, t2 \in Threads :
        /\ th[t1].pc = "D_done" /\ th[t1].client # Nil /\ th[t1].activeNumber > 0
        /\ th[t2].pc = "D_done" /\ th[t2].client = th[t1].client /\ th[t2].activeNumber = 0
        /\ clientState[th[t2].client] = "closed"

\* ------------------------------------------------------ invocation claims
IsInvoke(t) == th[t].call.kind = "invoke"
Returned(t) == IsInvoke(t) /\ th[t].pc = "returned"
\* The Invoke passed the availability and client checks and did not panic.
PastChecks(t) ==
    /\ IsInvoke(t)
    /\ \/ th[t].pc = "I_flight"
       \/ th[t].pc = "returned" /\ th[t].call.err \notin {ErrDestroyedInvoker, ErrClientClosed}

\* C2: an Invoke called after a Destroy of the invoker has returned gets
\* ErrDestroyedInvoker, submits nothing to the client and never reads the client.
C2_DestroyedInvokerRejected ==
    \A t \in Threads :
        (IsInvoke(t) /\ th[t].call.destroyedBefore) =>
            /\ th[t].pc = "returned"
            /\ th[t].call.err = ErrDestroyedInvoker
            /\ th[t].call.submitted = <<>>
            /\ ~th[t].call.readClient
\* Such an Invoke on an invoker that was constructed with a nil client.
C2_Witness ==
    \E t \in Threads :
        /\ IsInvoke(t) /\ th[t].call.destroyedBefore
        /\ di[th[t].inv].bound = Nil /\ di[th[t].inv].decrements = 0

\* C7 as stated: an Invoke that finds the invoker marked destroyed when it
\* examines the client returns ErrDestroyedInvoker, and ErrClientClosed is
\* returned only by an Invoke that found it not marked and the client nil.
C7_FastFailOrder ==
    \A t \in Threads :
        (Returned(t) /\ th[t].call.readClient) =>
            /\ th[t].call.markedAtExam => th[t].call.err = ErrDestroyedInvoker
            /\ th[t].call.err = ErrClientClosed =>
                  ~th[t].call.markedAtExam /\ th[t].client = Nil

\* C7 amended: the client is examined before the mark. An Invoke that finds the
\* client nil returns ErrClientClosed, marked or not; one that finds a client
\* and the invoker marked returns ErrDestroyedInvoker. Every Invoke that
\* returns, returns one of the five results, and an operation is submitted
\* only on the non-nil client that is still the invoker's.
C7_FastFailOrderAmended ==
    \A t \in Threads :
        IsInvoke(t) =>
            /\ th[t].pc = "returned" =>
                  th[t].call.err \in {NoError, TransportError, ErrDestroyedInvoker,
                                      ErrClientClosed, ErrNoReply}
            /\ (th[t].pc = "returned" /\ th[t].call.readClient) =>
                  /\ th[t].client = Nil <=> th[t].call.err = ErrClientClosed
                  /\ (th[t].client # Nil /\ th[t].call.markedAtExam) =>
                        th[t].call.err = ErrDestroyedInvoker
            /\ (th[t].pc = "returned" /\ ~th[t].call.readClient) =>
                  th[t].call.err = ErrDestroyedInvoker
            /\ th[t].call.submitted # <<>> => th[t].client # Nil
            /\ th[t].pc = "I_flight" =>
                  di[th[t].inv].client # Nil /\ di[th[t].inv].client = th[t].client
\* An Invoke that found a client and the invoker already marked by a Destroy.
C7_Witness ==
    \E t \in Threads :
        /\ Returned(t) /\ th[t].call.readClient /\ th[t].call.markedAtExam
        /\ th[t].client # Nil /\ th[t].call.err = ErrDestroyedInvoker

\* The service-level timeout of a URL: its timeout parameter, else 3 seconds.
ServiceLevel(url) ==
    LET p == url.params[TIMEOUT_KEY]
    IN  IF p # <<>> /\ ParseDuration(p).ok THEN ParseDuration(p).v ELSE 3000000
\* The cascade for method name m: methods.<m>.timeout if non-empty and a
\* duration, else the service level.
CascadeFor(url, m) ==
    LET k == "methods." \o m \o ".timeout"
        p == IF k \in DOMAIN url.params THEN url.params[k] ELSE <<>>
    IN  IF p # <<>> /\ ParseDuration(p).ok THEN ParseDuration(p).v ELSE ServiceLevel(url)
IsGenericURL(url) == url.params[GENERIC_KEY] \in TrueStrings

\* C8 as stated: the resolved timeout is the cascade for the invocation's
\* method name.
C8_TimeoutCascade ==
    \A t \in Threads :
        PastChecks(t) =>
            th[t].call.timeout = CascadeFor(di[th[t].inv].url, th[t].call.invocation.method)

\* C8 amended: the cascade is looked up under the invocation's method name, or
\* under its first argument when the URL is marked generic. Service level 5s
\* with methods.foo.timeout=200ms gives 200ms for foo and 5s for bar; the
\* service level is the one computed at construction.
C8_TimeoutCascadeAmended ==
    /\ \A t \in Threads :
        PastChecks(t) =>
            LET url == di[th[t].inv].url
                v == th[t].call.invocation
                m == IF IsGenericURL(url) THEN v.arg0 ELSE v.method
            IN  /\ th[t].call.timeout = CascadeFor(url, m)
                /\ (/\ url.params[TIMEOUT_KEY] = S_5s
                    /\ url.params[MethodTimeoutKey("foo")] = S_200ms
                    /\ url.params[MethodTimeoutKey("bar")] = <<>>) =>
                        th[t].call.timeout = IF m = "foo" THEN 200000 ELSE 5000000
    /\ \A i \in Invokers : di[i].built => di[i].timeout = ServiceLevel(di[i].url)
\* A generic call whose first argument names foo resolves foo's 200ms.
C8_Witness ==
    \E t \in Threads :
        /\ PastChecks(t)
        /\ IsGenericURL(di[th[t].inv].url)
        /\ th[t].call.invocation.method = "$invoke" /\ th[t].call.invocation.arg0 = "foo"
        /\ th[t].call.timeout = 200000

\* C9: after an Invoke that passed the checks, whatever its mode, the timeout
\* attachment is the resolved timeout in milliseconds, in decimal, and not the
\* URL's raw timeout parameter copied there before.
C9_TimeoutAttachment ==
    \A t \in Threads :
        PastChecks(t) =>
            LET a == th[t].call.attachments[TIMEOUT_KEY]
                d == th[t].call.timeout
            IN  /\ a = Itoa(Milliseconds(d))
                /\ d = 5000000 => a = <<"5", "0", "0", "0">>
                /\ d = 3000000 => a = <<"3", "0", "0", "0">>
                /\ d = 200000 => a = <<"2", "0", "0">>
                /\ d = 60000000 => a = <<"6", "0", "0", "0", "0">>
                /\ d = 1500 => a = <<"1">>
                /\ d = 0 - 1500 => a = <<"-", "1">>
\* A sync call rejected with ErrNoReply on a URL whose timeout parameter is
\* "5s": the attachment holds 5000, not the copied "5s".
C9_Witness ==
    \E t \in Threads :
        /\ Returned(t) /\ th[t].call.err = ErrNoReply
        /\ di[th[t].inv].url.params[TIMEOUT_KEY] = S_5s
        /\ th[t].call.attachments[TIMEOUT_KEY] = <<"5", "0", "0", "0">>

\* C10: an Invoke with a true async attachment and no callback submits exactly
\* one Send and no Request, leaves the reply slot as it was, and its Result
\* carries that reply slot at most, and no response attributes.
C10_AsyncWithoutCallback ==
    \A t \in Threads :
        (/\ PastChecks(t)
         /\ th[t].call.invocation.async \in TrueStrings
         /\ ~th[t].call.invocation.callback) =>
            /\ th[t].call.submitted = <<"Send">>
            /\ th[t].call.reply = th[t].call.invocation.reply
            /\ th[t].call.reply # "populated"
            /\ th[t].call.rest \in {"unset", th[t].call.invocation.reply}
            /\ th[t].call.attrs = "nil"
\* Such a call has returned without error, its reply slot still empty.
C10_Witness ==
    \E t \in Threads :
        /\ Returned(t) /\ th[t].call.err = NoError
        /\ th[t].call.invocation.async \in TrueStrings /\ ~th[t].call.invocation.callback
        /\ th[t].call.submitted = <<"Send">> /\ th[t].call.rest = "empty"

\* C11: an Invoke that passed the checks and whose async attachment is false,
\* absent or no boolean returns ErrNoReply and submits nothing when the reply
\* slot is nil, and submits exactly one blocking Request when it is not. A
\* Result with an error carries neither reply nor attributes, and the error of
\* a submitted operation is the transport's own.
C11_SyncReplySlot ==
    \A t \in Threads :
        /\ (PastChecks(t) /\ th[t].call.invocation.async \notin TrueStrings) =>
              IF th[t].call.invocation.reply = "nil"
              THEN /\ th[t].pc = "returned"
                   /\ th[t].call.err = ErrNoReply
                   /\ th[t].call.submitted = <<>>
              ELSE th[t].call.submitted = <<"Request">>
        /\ (Returned(t) /\ th[t].call.err # NoError) =>
              th[t].call.rest = "unset" /\ th[t].call.attrs = "nil"
        /\ (Returned(t) /\ th[t].call.submitted # <<>>) =>
              th[t].call.err \in {NoError, TransportError}
\* One synchronous call was refused for its nil reply slot, and another, its
\* async attachment no boolean, came back with the transport's error.
C11_Witness ==
    \E t, u \in Threads :
        /\ Returned(t) /\ th[t].call.invocation.async = S_false
        /\ th[t].call.invocation.reply = "nil" /\ th[t].call.err = ErrNoReply
        /\ Returned(u) /\ th[u].call.invocation.async = S_bad
        /\ th[u].call.submitted = <<"Request">> /\ th[u].call.err = TransportError
        /\ th[u].call.rest = "unset"

\* ---------------------------------------------------- availability claims
IsAvailableQuery(t) == th[t].call.kind = "isAvailable" /\ th[t].pc = "returned"

\* C12: IsAvailable answers true exactly when it read a non-nil client and
\* that client reported itself available; it answers false on an invoker
\* constructed without client and whenever it is called after a Destroy of
\* the invoker has returned.
C12_IsAvailable ==
    \A t \in Threads :
        IsAvailableQuery(t) =>
            /\ th[t].call.result <=> (th[t].client # Nil /\ th[t].call.reported)
            /\ th[t].call.asked <=> th[t].client # Nil
            /\ di[th[t].inv].bound = Nil => ~th[t].call.result
            /\ th[t].call.destroyedBefore => ~th[t].call.result /\ ~th[t].call.asked
\* One call found the bound client available, another came after Destroy.
C12_Witness ==
    \E t, u \in Threads :
        /\ IsAvailableQuery(t) /\ th[t].call.result /\ ~th[t].call.destroyedBefore
        /\ IsAvailableQuery(u) /\ th[u].call.destroyedBefore /\ ~th[u].call.result
        /\ di[th[u].inv].bound # Nil

\* C20 as stated: the client Destroy has captured and whose count it
\* decrements is the client its setClient(nil) replaces; no setClient comes
\* between the capture and the nil-ing.
C20_AtomicDetach ==
    \A t \in Threads :
        th[t].pc \in {"D_dec", "D_lock", "D_set"} =>
            di[th[t].inv].client = th[t].client

\* --------------------------------------------- configuration backend claims
\* Whether b is a with its last "." turned into "/" and nothing else changed.
LastDotSplit(a, b) ==
    /\ Len(b) = Len(a)
    /\ \E p \in 1..Len(a) :
        /\ a[p] = "." /\ b[p] = "/"
        /\ \A j \in 1..Len(a) : j > p => a[j] # "."
        /\ \A j \in 1..Len(a) : j # p => b[j] = a[j]
HasDot(a) == \E p \in 1..Len(a) : a[p] = "."
\* The path of a GetProperties below the namespace root.
RelativePath(g) == SubSeq(g.path, Len(zk.rootPath) + 2, Len(g.path))
S_configurators_path_claimed ==
    [j \in 1..Len(S_configurators) |->
        IF S_configurators[j] = "." THEN "/" ELSE S_configurators[j]]

\* C13 as stated: a GetProperties with a group reads group + "/" + key below
\* the namespace root, and without group the key
\* org.apache.dubbo.DemoService.configurators is read at
\* org/apache/dubbo/DemoService/configurators.
C13_PathResolution ==
    (zk.got.outcome \notin {"none", "panic"}) =>
        /\ Len(zk.got.group) # 0 =>
              RelativePath(zk.got) = zk.got.group \o <<"/">> \o zk.got.key
        /\ (Len(zk.got.group) = 0 /\ zk.got.key = S_configurators) =>
              RelativePath(zk.got) = S_configurators_path_claimed

\* C13 amended: with a group the path below the namespace root is
\* group + "/" + key; without group and with a "." in the key it is the key
\* with only its final "." turned into "/", so that
\* org.apache.dubbo.DemoService.configurators is read at
\* org.apache.dubbo.DemoService/configurators; without group and without "."
\* in the key GetProperties panics. The path read is the namespace root, "/",
\* and that path.
C13_PathResolutionAmended ==
    (zk.got.outcome # "none") =>
        /\ (Len(zk.got.group) = 0 /\ ~HasDot(zk.got.key)) <=> zk.got.outcome = "panic"
        /\ zk.got.outcome # "panic" =>
              /\ SubSeq(zk.got.path, 1, Len(zk.rootPath) + 1) = zk.rootPath \o <<"/">>
              /\ Len(zk.got.group) # 0 =>
                    RelativePath(zk.got) = zk.got.group \o <<"/">> \o zk.got.key
              /\ Len(zk.got.group) = 0 => LastDotSplit(zk.got.key, RelativePath(zk.got))
              /\ (zk.got.group = S_dubbo /\ zk.got.key = S_dubbo_properties) =>
                    RelativePath(zk.got) = S_dubbo \o <<"/">> \o S_dubbo_properties
              /\ (Len(zk.got.group) = 0 /\ zk.got.key = S_configurators) =>
                    RelativePath(zk.got) =
                        SubSeq(S_configurators, 1, 28) \o <<"/">> \o SubSeq(S_configurators, 30, 42)
\* The governance-rule key was read without group.
C13_Witness ==
    /\ zk.got.outcome \notin {"none", "panic"}
    /\ Len(zk.got.group) = 0 /\ zk.got.key = S_configurators

\* C14 as stated: a GetProperties that follows a PublishConfig of the same
\* key and group returns the published value.
C14_PublishReadRoundTrip ==
    (zk.got.outcome # "none" /\ zk.got.after.made) =>
        zk.got.outcome = "value" /\ zk.got.value = zk.got.after.value

\* C15 as stated: however often Destroy is called, the event listener is
\* closed at most once and no call fails.
C15_ZkDestroyOnce ==
    /\ zk.listenerCloses <= 1
    /\ \A t \in Threads : th[t].call.kind = "zkDestroy" => th[t].pc # "panicked"

\* C16 as stated: a listener added under (group, key) and not removed under
\* that pair is still in the pair's entry, and two pairs with listeners have
\* two entries, in the apollo and in the zookeeper configuration.
C16_ListenersPerPair ==
    /\ \A r \in apollo.registered :
          r[3] \in EntryOf(apollo.listeners, ApolloListenerKey(r[2], r[1]))
    /\ \A r, q \in apollo.registered :
          <<r[1], r[2]>> # <<q[1], q[2]>> =>
              ApolloListenerKey(r[2], r[1]) # ApolloListenerKey(q[2], q[1])
    /\ \A r \in zk.registered :
          r[3] \in EntryOf(zk.keyListeners, ZkListenerKey(r[2], r[1]))
    /\ \A r, q \in zk.registered :
          <<r[1], r[2]>> # <<q[1], q[2]>> =>
              ZkListenerKey(r[2], r[1]) # ZkListenerKey(q[2], q[1])

ApolloUnsupportedCall(c) == c.kind \in {"apolloPublishConfig", "apolloGetConfigKeysByGroup"}
HasScheme(a) == \E i \in 1..(Len(a) - 2) : SubSeq(a, i, i + 2) = <<":", "/", "/">>

\* C18: loadRegistries for a target list that names one registry, whose
\* address is a host:port or a comma-separated list of them, returns one URL
\* and its Location is that address, character for character.
C18_LocationVerbatim ==
    \A t \in Threads :
        LET c == th[t].call
        IN  (/\ c.kind = "loadRegistries"
             /\ Len(c.target) = 1 /\ c.target[1] \in DOMAIN c.regs
             /\ ~HasScheme(c.regs[c.target[1]].Address)) =>
                /\ Len(c.urls) = 1
                /\ c.urls[1].Location = c.regs[c.target[1]].Address
                /\ c.regs[c.target[1]].Address = S_addresses => c.urls[1].Location = S_addresses
\* The registry shanghai1 with two addresses was loaded by name.
C18_Witness ==
    \E t \in Threads :
        /\ th[t].call.kind = "loadRegistries" /\ th[t].call.target = <<"shanghai1">>
        /\ th[t].call.regs["shanghai1"].Address = S_addresses
        /\ Len(th[t].call.urls) = 1

\* C19: translateRegistryAddress of an address <scheme>://<hostport> leaves
\* Protocol = <scheme> and Address = <hostport>: the two, joined by "://", are
\* the address given, the scheme holds no "://", and nacos://127.0.0.1:8848
\* gives nacos and 127.0.0.1:8848.
C19_TranslateSplits ==
    \A t \in Threads :
        LET c == th[t].call
        IN  (c.kind = "translateRegistryAddress" /\ HasScheme(c.address)) =>
                /\ c.reg.Protocol \o <<":", "/", "/">> \o c.reg.Address = c.address
                /\ ~HasScheme(c.reg.Protocol \o <<":", "/">>)
                /\ c.address = S_nacos_address =>
                      /\ c.reg.Protocol = S_nacos
                      /\ c.reg.Address = SubSeq(S_nacos_address, 9, 22)
\* The nacos address was translated.
C19_Witness ==
    \E t \in Threads :
        /\ th[t].call.kind = "translateRegistryAddress"
        /\ th[t].call.address = S_nacos_address /\ th[t].call.reg.Protocol = S_nacos

\* ------------------------------------------------------- teardown claims
\* The Invokes that have submitted an operation to client c and have not
\* returned from it.
Dispatching(c) == {t \in Threads : IsInvoke(t) /\ th[t].pc = "I_flight" /\ th[t].client = c}

\* C22: a shared client is never closed while an Invoke is dispatching on it:
\* in the step in which client.Close runs on a client, no Invoke of any invoker
\* bound to that client is between submitting its operation and returning.
C22_NoCloseWhileDispatching ==
    [][\A c \in Clients : closeCalls'[c] > closeCalls[c] => Dispatching(c) = {}]_vars

\* A Destroy of the zookeeper configuration that has ended, by returning or
\* by panicking.
ZkDestroyEnded(t) == th[t].call.kind = "zkDestroy" /\ th[t].pc \in {"returned", "panicked"}
\* closeConfigs has run: the client was closed and the field no longer holds it.
ZkClientClosed == zk.built /\ zk.client # "open"

====
